---- MODULE Spec2Model ----
(***************************************************************************)
(* A model of src/app.py: ATSAnalyzer.extract_text_from_pdf (embedded text *)
(* first, OCR fallback), ATSAnalyzer.perform_ats_checks (the heuristic     *)
(* score), ATSAnalyzer.get_gemini_response and the request pipeline of     *)
(* main after "Analyze Resume".                                            *)
(*                                                                         *)
(* A Python str is a sequence of one-character strings; None and a str are *)
(* told apart by the record [none, str].                                   *)
(***************************************************************************)
EXTENDS Integers, Sequences, FiniteSets, TLC

\* ------------------------------------------------------------------ bounds

\* The largest number of pages of an uploaded PDF.
MaxPages == 2

\* The largest number of fragments a resume text of the scorer's inputs is
\* concatenated from.
MaxFragments == 2

\* ------------------------------------------------------- program constants

\* len(pdf_text.split()) < 1000
ReadableLimit == 1000

\* uploaded_file.size > 2 * 1024 * 1024
MaxUploadBytes == 2097152

\* ---------------------------------------------------------- Python values

None == [none |-> TRUE, str |-> <<>>]

Str(s) == [none |-> FALSE, str |-> s]

\* The truth value of an Optional[str] (if x / x or ""): None and "" are false.
Truthy(v) == ~v.none /\ v.str # <<>>

\* ---------------------------------------------------------- str operations

UpperChars == << "A", "B", "C", "D", "E", "F", "G", "H", "I", "J", "K", "L", "M",
                 "N", "O", "P", "Q", "R", "S", "T", "U", "V", "W", "X", "Y", "Z" >>

LowerChars == << "a", "b", "c", "d", "e", "f", "g", "h", "i", "j", "k", "l", "m",
                 "n", "o", "p", "q", "r", "s", "t", "u", "v", "w", "x", "y", "z" >>

\* The characters str.strip() and str.split() take for whitespace.
IsSpace(c) == c \in {" ", "\n", "\t", "\r", "\f"}

\* The lower-case letter of each upper-case letter.
ToLowerMap ==
    [c \in {UpperChars[i] : i \in 1..Len(UpperChars)} |->
        LowerChars[CHOOSE i \in 1..Len(UpperChars) : UpperChars[i] = c]]

LowerChar(c) == IF c \in DOMAIN ToLowerMap THEN ToLowerMap[c] ELSE c

\* str.lower()
Lower(s) == SubSeq([i \in 1..Len(s) |-> LowerChar(s[i])], 1, Len(s))

\* str.strip(): the text from its first to its last non-whitespace character.
Strip(s) ==
    LET keep == {i \in 1..Len(s) : ~IsSpace(s[i])}
    IN  IF keep = {} THEN <<>>
        ELSE LET first == CHOOSE i \in keep : \A j \in keep : i <= j
                 last  == CHOOSE i \in keep : \A j \in keep : j <= i
             IN  SubSeq(s, first, last)

\* sub in s
Contains(sub, s) ==
    \E i \in 0..(Len(s) - Len(sub)) : SubSeq(s, i + 1, i + Len(sub)) = sub

\* The last character of the run of non-whitespace characters that holds i.
RECURSIVE RunEnd(_, _)
RunEnd(s, i) ==
    IF i >= Len(s) THEN Len(s)
    ELSE IF IsSpace(s[i + 1]) THEN i ELSE RunEnd(s, i + 1)

\* A run of non-whitespace characters starts at i.
IsStart(s, i) == ~IsSpace(s[i]) /\ (i = 1 \/ IsSpace(s[i - 1]))

\* The runs of non-whitespace characters that start in lo..hi, in order (by
\* halving, which keeps the depth of the evaluation logarithmic).
RECURSIVE SplitRange(_, _, _)
SplitRange(s, lo, hi) ==
    IF lo > hi THEN <<>>
    ELSE IF lo = hi
         THEN IF IsStart(s, lo) THEN << SubSeq(s, lo, RunEnd(s, lo)) >> ELSE <<>>
         ELSE SplitRange(s, lo, (lo + hi) \div 2)
                  \o SplitRange(s, (lo + hi) \div 2 + 1, hi)

\* str.split(): the maximal runs of non-whitespace characters, in order.
Split(s) == SplitRange(s, 1, Len(s))

\* sum() of a tuple of booleans (True counts 1).
RECURSIVE SumBools(_)
SumBools(bs) ==
    IF bs = <<>> THEN 0 ELSE (IF Head(bs) THEN 1 ELSE 0) + SumBools(Tail(bs))

\* ------------------------------------------------------ perform_ats_checks

W_table == << "t", "a", "b", "l", "e" >>
W_image == << "i", "m", "a", "g", "e" >>
W_summary == << "s", "u", "m", "m", "a", "r", "y" >>
W_experience == << "e", "x", "p", "e", "r", "i", "e", "n", "c", "e" >>
W_education == << "e", "d", "u", "c", "a", "t", "i", "o", "n" >>

\* ["summary", "experience", "education"]
KeySectionNames == << W_summary, W_experience, W_education >>

\* The keys of the checks dict, in insertion order.
CheckNames == << "Keywords Present", "No Complex Formatting", "Key Sections",
                 "Readable Length" >>

\* job_description.split(), the lower() forgotten.
KeywordsNoLower(job_description) == Split(job_description)

\* job_description.lower().split()
Keywords(job_description) == Split(Lower(job_description))

\* any(keyword in pdf_text.lower() for keyword in job_description.lower().split())
KeywordsPresent(pdf_text, job_description) ==
    \E k \in 1..Len(Keywords(job_description)) :
        Contains(Keywords(job_description)[k], Lower(pdf_text))

\* not ("table" in pdf_text.lower() or "image" in pdf_text.lower())
NoComplexFormatting(pdf_text) ==
    ~(Contains(W_table, Lower(pdf_text)) \/ Contains(W_image, Lower(pdf_text)))

\* all(section in pdf_text.lower() for section in [...])
KeySections(pdf_text) ==
    \A k \in 1..Len(KeySectionNames) : Contains(KeySectionNames[k], Lower(pdf_text))

\* len(pdf_text.split()) < 1000
ReadableLength(pdf_text) == Len(Split(pdf_text)) < ReadableLimit

\* The checks dict.
Checks(pdf_text, job_description) ==
    ("Keywords Present" :> KeywordsPresent(pdf_text, job_description))
    @@ ("No Complex Formatting" :> NoComplexFormatting(pdf_text))
    @@ ("Key Sections" :> KeySections(pdf_text))
    @@ ("Readable Length" :> ReadableLength(pdf_text))

\* The score with the floor division sum(...) // len(checks) * 100.
ScoreFloorDiv(checks) ==
    (SumBools([k \in 1..Len(CheckNames) |-> checks[CheckNames[k]]])
        \div Cardinality(DOMAIN checks)) * 100

\* sum(checks.values()) / len(checks) * 100. With four checks the quotient is a
\* multiple of 1/4, which a float holds exactly, and so is its product with
\* 100: the float equals the rational total * 100 / count.
ScoreOf(checks) ==
    (SumBools([k \in 1..Len(CheckNames) |-> checks[CheckNames[k]]]) * 100)
        \div Cardinality(DOMAIN checks)

\* perform_ats_checks(pdf_text, job_description): (score, checks)
perform_ats_checks(pdf_text, job_description) ==
    LET checks == Checks(pdf_text, job_description)
    IN  [score |-> ScoreOf(checks), checks |-> checks]

\* ------------------------------------------------------------------ state

VARIABLES
    uploaded_file,    \* the upload: [size, malformed, pages]
    job_description,  \* the text area's value
    analysis_type,    \* the radio's value
    pc,               \* the position of main
    epc,              \* the position inside extract_text_from_pdf
    pos,              \* the read position of the upload's byte stream
    page_no,          \* the index of the running for loop
    text,             \* extract_text_from_pdf's local text
    images,           \* convert_from_bytes' result: the pages rasterized
    ocr_data,         \* the bytes uploaded_file.read() returned
    fault,            \* the exception raised in extract_text_from_pdf
    pdf_text,         \* main's pdf_text (perform_ats_checks' argument)
    ats_score,
    ats_checks,
    prompt,
    gen,              \* what the generation collaborator did
    response,         \* main's response
    ui,               \* what streamlit was asked to show, in order
    calls             \* the calls made, in order

vars == << uploaded_file, job_description, analysis_type, pc, epc, pos, page_no,
           text, images, ocr_data, fault, pdf_text, ats_score, ats_checks,
           prompt, gen, response, ui, calls >>

\* The variables of main (what extract_text_from_pdf leaves alone).
mainVars == << ats_score, ats_checks, prompt, gen, response >>

inputVars == << uploaded_file, job_description, analysis_type >>

\* ----------------------------------------------------------------- inputs

T_sp == << " " >>
T_hi == << " ", "H", "i" >>
T_table == << "T", "a", "b", "l", "e", "\n" >>
T_scan == << "S", "c", "a", "n", " " >>
T_python == << "p", "y", "t", "h", "o", "n" >>

\* What page.extract_text() does on a page: it raises, or returns None or a str.
Raises == [raises |-> TRUE, value |-> None]
Returns(v) == [raises |-> FALSE, value |-> v]

EmbeddedOutcomes ==
    {Raises, Returns(None), Returns(Str(T_sp)), Returns(Str(T_hi)), Returns(Str(T_table))}

\* What pytesseract.image_to_string does on the page's image.
OcrOutcomes == {Raises, Returns(Str(T_sp)), Returns(Str(T_scan))}

Pages == [embedded : EmbeddedOutcomes, ocr : OcrOutcomes]

PageSeqs == UNION {[1..n -> Pages] : n \in 1..MaxPages}

\* The uploads: the zero-length stream, a stream that is no PDF, an oversized
\* PDF, and the PDFs of 1..MaxPages pages. The byte stream of a PDF is one
\* chunk per page.
Files ==
    {[size |-> 0, malformed |-> TRUE, pages |-> <<>>],
     [size |-> 1024, malformed |-> TRUE, pages |-> <<>>],
     [size |-> MaxUploadBytes + 1, malformed |-> FALSE,
      pages |-> << [embedded |-> Returns(Str(T_hi)), ocr |-> Returns(Str(T_sp))] >>]}
    \cup {[size |-> MaxUploadBytes, malformed |-> FALSE, pages |-> ps] : ps \in PageSeqs}

JobDescriptions == {T_sp, T_python}

AnalysisTypes == {"Detailed Resume Review", "ATS Match Percentage Analysis"}

\* The two prompt templates (named by their first sentence's role).
DetailedPrompt == "As an experienced Technical HR Manager, ..."
MatchPrompt == "As an ATS (Applicant Tracking System) expert, ..."

\* What model.generate_content / response.text does: it raises, or the
\* response's text is this str.
GenOutcomes ==
    {[raises |-> TRUE, text |-> ""], [raises |-> FALSE, text |-> ""],
     [raises |-> FALSE, text |-> "Match: 80%"]}

NotCalled == [called |-> FALSE, raises |-> FALSE, text |-> ""]

\* get_gemini_response's results: None, or a str (here a TLA+ string).
NoResponse == [none |-> TRUE, str |-> ""]

Response(t) == [none |-> FALSE, str |-> t]

\* if response:
ResponseTruthy(r) == ~r.none /\ r.str # ""

NoFault == ""

StreamLen(f) == Len(f.pages)

Call(op, arg) == [op |-> op, arg |-> arg]

Show(kind, parts) == [kind |-> kind, text |-> parts]

Called(op) == \E k \in 1..Len(calls) : calls[k].op = op

Shown(kind, parts) == \E k \in 1..Len(ui) : ui[k] = Show(kind, parts)

\* ------------------------------------------------------------------- Init

Init ==
    /\ uploaded_file \in Files
    /\ job_description \in JobDescriptions
    /\ analysis_type \in AnalysisTypes
    /\ pc = "form"
    /\ epc = "idle"
    /\ pos = 0
    /\ page_no = 0
    /\ text = <<>>
    /\ images = <<>>
    /\ ocr_data = <<>>
    /\ fault = NoFault
    /\ pdf_text = None
    /\ ats_score = 0
    /\ ats_checks = << >>
    /\ prompt = ""
    /\ gen = NotCalled
    /\ response = NoResponse
    /\ ui = <<>>
    /\ calls = <<>>

\* -------------------------------------------------- extract_text_from_pdf

\* The try block as it would be with the reader constructed before it.
InTryAfterReader(stmt) ==
    stmt \in {"extract_text", "text += page_text", "convert_from_bytes", "image_to_string"}

\* The statements the try block of extract_text_from_pdf holds.
InTry(stmt) ==
    stmt \in {"PdfReader", "extract_text", "text += page_text", "convert_from_bytes",
              "image_to_string"}

\* An exception raised by stmt: the except clause takes it when stmt is in the
\* try block; otherwise it leaves extract_text_from_pdf and ends main's run.
Raise(stmt, msg) ==
    /\ fault' = msg
    /\ IF InTry(stmt)
       THEN epc' = "except" /\ pc' = pc
       ELSE epc' = "idle" /\ pc' = "crashed"

\* page.extract_text(), the or "" forgotten.
OrEmptyForgotten(v) == v

\* page.extract_text() or ""
OrEmpty(v) == IF Truthy(v) THEN v ELSE Str(<<>>)

\* pdf_reader = PdfReader(uploaded_file); text = "". The reader raises on a
\* zero-length stream and on a stream that is no PDF; it leaves the stream
\* wherever its last read ended.
ParsePdf ==
    /\ epc = "parse"
    /\ calls' = Append(calls, Call("PdfReader", 0))
    /\ IF uploaded_file.size = 0 \/ uploaded_file.malformed
       THEN /\ Raise("PdfReader",
                     IF uploaded_file.size = 0 THEN "Cannot read an empty file"
                     ELSE "EOF marker not found")
            /\ UNCHANGED << pos, page_no, text >>
       ELSE /\ pos' \in 0..StreamLen(uploaded_file)
            /\ text' = <<>>
            /\ page_no' = 1
            /\ epc' = "pages"
            /\ UNCHANGED << pc, fault >>
    /\ UNCHANGED << inputVars, mainVars, images, ocr_data, pdf_text, ui >>

\* One round of: for page in pdf_reader.pages:
\*     page_text = page.extract_text() or ""; text += page_text
ExtractPage ==
    /\ epc = "pages"
    /\ page_no <= Len(uploaded_file.pages)
    /\ calls' = Append(calls, Call("extract_text", page_no))
    /\ LET got == uploaded_file.pages[page_no].embedded
           page_text == OrEmpty(got.value)
       IN  IF got.raises
           THEN /\ Raise("extract_text", "extract_text failed")
                /\ UNCHANGED << pos, page_no, text >>
           ELSE IF page_text.none
           THEN /\ Raise("text += page_text", "can only concatenate str (not NoneType) to str")
                /\ UNCHANGED << pos, page_no, text >>
           ELSE /\ text' = text \o page_text.str
                /\ page_no' = page_no + 1
                /\ pos' \in 0..StreamLen(uploaded_file)
                /\ UNCHANGED << pc, epc, fault >>
    /\ UNCHANGED << inputVars, mainVars, images, ocr_data, pdf_text, ui >>

\* OCR run whatever the embedded text is.
NeedsOcrAlways(t) == TRUE

\* if not text.strip(): (after the loop over the pages)
NeedsOcr(t) == Strip(t) = <<>>

\* The end of the loop over the pages, and the decision to try OCR.
CheckEmbedded ==
    /\ epc = "pages"
    /\ page_no > Len(uploaded_file.pages)
    /\ IF NeedsOcr(text)
       THEN /\ ui' = Append(ui, Show("warning",
                        << "No text detected. Attempting OCR on image-based PDF..." >>))
            /\ epc' = "rasterize"
       ELSE /\ epc' = "return"
            /\ UNCHANGED ui
    /\ UNCHANGED << inputVars, mainVars, pc, pos, page_no, text, images, ocr_data,
                    fault, pdf_text, calls >>

\* uploaded_file.read(): the bytes from the read position to the end.
ReadRest(f, p) == [i \in 1..(StreamLen(f) - p) |-> p + i]

\* images = convert_from_bytes(uploaded_file.read(), first_page=1,
\*                             last_page=len(pdf_reader.pages))
\* Given the whole stream the rasterizer yields pages 1..last_page; given no
\* byte it raises; given a tail of the stream it raises or yields the pages
\* it recovers from the tail. It may raise in any case (no poppler).
Rasterize ==
    /\ epc = "rasterize"
    /\ calls' = Append(calls, Call("convert_from_bytes", 0))
    /\ ocr_data' = ReadRest(uploaded_file, pos)
    /\ pos' = StreamLen(uploaded_file)
    /\ \/ /\ ocr_data' # <<>>
          /\ images' = ocr_data'
          /\ page_no' = 1
          /\ epc' = "ocr"
          /\ UNCHANGED << pc, fault >>
       \/ /\ Raise("convert_from_bytes", "Unable to get page count.")
          /\ UNCHANGED << images, page_no >>
    /\ UNCHANGED << inputVars, mainVars, text, pdf_text, ui >>

\* One round of: for image in images:
\*     text += pytesseract.image_to_string(image) + "\n"
OcrImage ==
    /\ epc = "ocr"
    /\ page_no <= Len(images)
    /\ calls' = Append(calls, Call("image_to_string", images[page_no]))
    /\ LET got == uploaded_file.pages[images[page_no]].ocr
       IN  IF got.raises
           THEN /\ Raise("image_to_string", "tesseract is not installed")
                /\ UNCHANGED << page_no, text >>
           ELSE /\ text' = text \o got.value.str \o << "\n" >>
                /\ page_no' = page_no + 1
                /\ UNCHANGED << pc, epc, fault >>
    /\ UNCHANGED << inputVars, mainVars, pos, images, ocr_data, pdf_text, ui >>

\* text if text.strip() else None: the text returned as accumulated.
ReturnUntrimmed(t) == IF Strip(t) # <<>> THEN Str(t) ELSE None

\* text.strip() if text.strip() else None
ReturnValue(t) == IF Strip(t) # <<>> THEN Str(Strip(t)) ELSE None

\* return text.strip() if text.strip() else None
ReturnText ==
    /\ \/ epc = "return"
       \/ epc = "ocr" /\ page_no > Len(images)
    /\ pdf_text' = ReturnValue(text)
    /\ epc' = "idle"
    /\ pc' = "extracted"
    /\ UNCHANGED << inputVars, mainVars, pos, page_no, text, images, ocr_data, fault,
                    ui, calls >>

\* except Exception as e: st.error(...); return None
ExceptHandler ==
    /\ epc = "except"
    /\ ui' = Append(ui, Show("error", << "Error extracting PDF text: ", fault >>))
    /\ pdf_text' = None
    /\ epc' = "idle"
    /\ pc' = "extracted"
    /\ UNCHANGED << inputVars, mainVars, pos, page_no, text, images, ocr_data, fault,
                    calls >>

\* ---------------------------------------------------- get_gemini_response

\* response.text if response.text else "No response from Gemini API."
ResponseText(t) == IF t # "" THEN t ELSE "No response from Gemini API."

\* get_gemini_response with the retry its docstring names: a call that raises
\* or returns no text is made once more.
GetGeminiResponseWithRetry ==
    /\ pc = "generate"
    /\ \E first \in GenOutcomes, out \in GenOutcomes :
        /\ gen' = [called |-> TRUE, raises |-> out.raises, text |-> out.text]
        /\ calls' = calls \o << Call("get_gemini_response", 0), Call("generate_content", 0) >>
                          \o (IF first.raises \/ first.text = ""
                              THEN << Call("generate_content", 0) >> ELSE <<>>)
        /\ ~(first.raises \/ first.text = "") => out = first
        /\ IF out.raises
           THEN /\ ui' = Append(ui, Show("error",
                            << "Error generating Gemini response: ", "quota exceeded" >>))
                /\ response' = NoResponse
           ELSE /\ response' = Response(ResponseText(out.text))
                /\ UNCHANGED ui
    /\ pc' = "display"
    /\ UNCHANGED << inputVars, epc, pos, page_no, text, images, ocr_data, fault,
                    pdf_text, ats_score, ats_checks, prompt >>

\* get_gemini_response(prompt, pdf_text, job_description): one call of
\* model.generate_content; an exception is reported and None returned.
GetGeminiResponse ==
    /\ pc = "generate"
    /\ \E out \in GenOutcomes :
        /\ gen' = [called |-> TRUE, raises |-> out.raises, text |-> out.text]
        /\ calls' = calls \o << Call("get_gemini_response", 0), Call("generate_content", 0) >>
        /\ IF out.raises
           THEN /\ ui' = Append(ui, Show("error",
                            << "Error generating Gemini response: ", "quota exceeded" >>))
                /\ response' = NoResponse
           ELSE /\ response' = Response(ResponseText(out.text))
                /\ UNCHANGED ui
    /\ pc' = "display"
    /\ UNCHANGED << inputVars, epc, pos, page_no, text, images, ocr_data, fault,
                    pdf_text, ats_score, ats_checks, prompt >>

\* ------------------------------------------------------------------- main

\* if uploaded_file.size > 2 * 1024 * 1024: st.error(...); return
OversizeUpload ==
    /\ pc = "form"
    /\ uploaded_file.size > MaxUploadBytes
    /\ ui' = Append(ui, Show("error",
                 << "File size exceeds 2MB. Please upload a smaller file." >>))
    /\ pc' = "done"
    /\ UNCHANGED << inputVars, mainVars, epc, pos, page_no, text, images, ocr_data,
                    fault, pdf_text, calls >>

\* if uploaded_file and job_description.strip(): ... else: st.info(...)
\* (the model starts with a file uploaded)
NoJobDescription ==
    /\ pc = "form"
    /\ uploaded_file.size <= MaxUploadBytes
    /\ Strip(job_description) = <<>>
    /\ ui' = Append(ui, Show("info",
                 << "Please upload your resume and provide the job description to begin the analysis." >>))
    /\ pc' = "done"
    /\ UNCHANGED << inputVars, mainVars, epc, pos, page_no, text, images, ocr_data,
                    fault, pdf_text, calls >>

\* if st.button("Analyze Resume"): pdf_text = extract_text_from_pdf(uploaded_file)
AnalyzeResume ==
    /\ pc = "form"
    /\ uploaded_file.size <= MaxUploadBytes
    /\ Strip(job_description) # <<>>
    /\ calls' = Append(calls, Call("extract_text_from_pdf", 0))
    /\ pc' = "extract"
    /\ epc' = "parse"
    /\ UNCHANGED << inputVars, mainVars, pos, page_no, text, images, ocr_data, fault,
                    pdf_text, ui >>

\* if not pdf_text: st.error(...), the return forgotten.
CheckExtractionNoReturn ==
    /\ pc = "extracted"
    /\ IF ~Truthy(pdf_text)
       THEN ui' = Append(ui, Show("error",
                        << "No text could be extracted from the resume. ..." >>))
       ELSE UNCHANGED ui
    /\ pc' = "checks"
    /\ UNCHANGED << inputVars, mainVars, epc, pos, page_no, text, images, ocr_data,
                    fault, pdf_text, calls >>

\* if not pdf_text: st.error(...); return
CheckExtraction ==
    /\ pc = "extracted"
    /\ IF ~Truthy(pdf_text)
       THEN /\ ui' = Append(ui, Show("error",
                        << "No text could be extracted from the resume. ..." >>))
            /\ pc' = "done"
       ELSE /\ pc' = "checks"
            /\ UNCHANGED ui
    /\ UNCHANGED << inputVars, mainVars, epc, pos, page_no, text, images, ocr_data,
                    fault, pdf_text, calls >>

\* ats_score, ats_checks = ATSAnalyzer.perform_ats_checks(pdf_text, job_description)
PerformChecks ==
    /\ pc = "checks"
    /\ calls' = Append(calls, Call("perform_ats_checks", 0))
    /\ LET r == perform_ats_checks(pdf_text.str, job_description)
       IN  ats_score' = r.score /\ ats_checks' = r.checks
    /\ pc' = "prompt"
    /\ UNCHANGED << inputVars, epc, pos, page_no, text, images, ocr_data, fault,
                    pdf_text, prompt, gen, response, ui >>

\* if analysis_type == "Detailed Resume Review": prompt = ... else: prompt = ...
SelectPrompt ==
    /\ pc = "prompt"
    /\ calls' = Append(calls, Call("prompt", 0))
    /\ prompt' = IF analysis_type = "Detailed Resume Review"
                 THEN DetailedPrompt ELSE MatchPrompt
    /\ pc' = "generate"
    /\ UNCHANGED << inputVars, epc, pos, page_no, text, images, ocr_data, fault,
                    pdf_text, ats_score, ats_checks, gen, response, ui >>

\* if response: st.markdown(...); st.markdown(response); st.download_button(...)
\* else: st.error(...)
Display ==
    /\ pc = "display"
    /\ IF ResponseTruthy(response)
       THEN ui' = ui \o << Show("markdown", << "### AI-Powered Analysis Results" >>),
                           Show("markdown", << response.str >>),
                           Show("download", << response.str >>) >>
       ELSE ui' = Append(ui, Show("error",
                        << "Failed to retrieve AI analysis. Please try again later." >>))
    /\ pc' = "done"
    /\ UNCHANGED << inputVars, mainVars, epc, pos, page_no, text, images, ocr_data,
                    fault, pdf_text, calls >>

Next ==
    \/ OversizeUpload
    \/ NoJobDescription
    \/ AnalyzeResume
    \/ ParsePdf
    \/ ExtractPage
    \/ CheckEmbedded
    \/ Rasterize
    \/ OcrImage
    \/ ReturnText
    \/ ExceptHandler
    \/ CheckExtraction
    \/ PerformChecks
    \/ SelectPrompt
    \/ GetGeminiResponse
    \/ Display

Spec == Init /\ [][Next]_vars

\* ------------------------------------------------ the scorer, called alone

F_sections == << "S", "u", "m", "m", "a", "r", "y", " ", "o", "f", " ",
                 "E", "x", "p", "e", "r", "i", "e", "n", "c", "e", "\n" >>
F_education == << "E", "D", "U", "C", "A", "T", "I", "O", "N", " " >>
F_table == << "T", "a", "b", "l", "e", "s", " " >>
F_image == << "a", "n", "\t", "i", "m", "a", "g", "e" >>
F_python == << "P", "y", "t", "h", "o", "n", "3", " " >>

Fragments == {F_sections, F_education, F_table, F_image, F_python}

\* n words, each followed by a space.
Words(n) == SubSeq([i \in 1..(2 * n) |-> IF i % 2 = 1 THEN "w" ELSE " "], 1, 2 * n)

RECURSIVE Concat(_)
Concat(ss) == IF ss = <<>> THEN <<>> ELSE Head(ss) \o Concat(Tail(ss))

\* The resume texts: 0..MaxFragments fragments, and the texts of one word less
\* than the limit of ReadableLength, or just the limit, followed by at most
\* one fragment.
ScoreTexts ==
    {Concat(fs) : fs \in UNION {[1..k -> Fragments] : k \in 0..MaxFragments}}
    \cup {Words(n) \o f : n \in {ReadableLimit - 1, ReadableLimit},
                          f \in Fragments \cup {<<>>}}

J_empty == <<>>
J_python == << " ", "p", "Y", "t", "h", "o", "n", "\n", "J", "a", "v", "a" >>
J_edu == << "R", "u", "s", "t", " ", " ", "e", "d", "u" >>

ScoreJobDescriptions == {J_empty, T_sp, J_python, J_edu}

InitScore ==
    /\ pdf_text \in {Str(t) : t \in ScoreTexts}
    /\ job_description \in ScoreJobDescriptions
    /\ pc = "score"
    /\ uploaded_file = [size |-> 0, malformed |-> TRUE, pages |-> <<>>]
    /\ analysis_type = "Detailed Resume Review"
    /\ epc = "idle"
    /\ pos = 0
    /\ page_no = 0
    /\ text = <<>>
    /\ images = <<>>
    /\ ocr_data = <<>>
    /\ fault = NoFault
    /\ ats_score = 0
    /\ ats_checks = << >>
    /\ prompt = ""
    /\ gen = NotCalled
    /\ response = NoResponse
    /\ ui = <<>>
    /\ calls = <<>>

\* score, checks = ATSAnalyzer.perform_ats_checks(pdf_text, job_description)
ScoreCall ==
    /\ pc = "score"
    /\ calls' = Append(calls, Call("perform_ats_checks", 0))
    /\ LET r == perform_ats_checks(pdf_text.str, job_description)
       IN  ats_score' = r.score /\ ats_checks' = r.checks
    /\ pc' = "scored"
    /\ UNCHANGED << inputVars, epc, pos, page_no, text, images, ocr_data, fault,
                    pdf_text, prompt, gen, response, ui >>

NextScore == ScoreCall

SpecScore == InitScore /\ [][NextScore]_vars

\* ------------------------------------------------- what the claims speak of

\* The upload parses: PdfReader does not raise on it.
ParseOk(f) == f.size # 0 /\ ~f.malformed

NoPageRaises(f) == \A k \in 1..Len(f.pages) : ~f.pages[k].embedded.raises

SomePageRaises(f) == \E k \in 1..Len(f.pages) : f.pages[k].embedded.raises

\* The embedded text of one page: what extract_text returns, nothing for None.
PageEmbedded(pg) ==
    IF pg.embedded.raises \/ pg.embedded.value.none THEN <<>> ELSE pg.embedded.value.str

\* The concatenation of the embedded texts of pages 1..n, a page without text
\* (or whose extraction raises) counting as the empty string.
RECURSIVE EmbeddedUpTo(_, _)
EmbeddedUpTo(f, n) ==
    IF n = 0 THEN <<>> ELSE EmbeddedUpTo(f, n - 1) \o PageEmbedded(f.pages[n])

EmbeddedText(f) == EmbeddedUpTo(f, Len(f.pages))

\* The OCR text of pages 1..n: each page's text and a newline, in page order.
RECURSIVE OcrUpTo(_, _)
OcrUpTo(f, n) ==
    IF n = 0 THEN <<>>
    ELSE OcrUpTo(f, n - 1) \o f.pages[n].ocr.value.str \o << "\n" >>

\* extract_text_from_pdf was called and has returned to main.
ExtractReturned ==
    Called("extract_text_from_pdf") /\ pc \notin {"form", "extract", "crashed"}

OcrInvoked == Called("convert_from_bytes") \/ Called("image_to_string")

CountCalls(op) == Cardinality({k \in 1..Len(calls) : calls[k].op = op})

ExtractionErrorShown == Shown("error", << "Error extracting PDF text: ", fault >>)

\* ------------------------------------------------------------------ claims

\* C1: when the trimmed concatenation of the pages' embedded text is not empty,
\* extract_text_from_pdf returns exactly that trimmed text and never invokes
\* OCR (rasterization, image_to_string); OCR is entered only when the trimmed
\* embedded text is empty.
EmbeddedTextHasPriority ==
    /\ (/\ ExtractReturned
        /\ ParseOk(uploaded_file)
        /\ NoPageRaises(uploaded_file)
        /\ Strip(EmbeddedText(uploaded_file)) # <<>>)
       => pdf_text = Str(Strip(EmbeddedText(uploaded_file))) /\ ~OcrInvoked
    /\ (OcrInvoked \/ epc \in {"rasterize", "ocr"})
       => /\ ParseOk(uploaded_file)
          /\ NoPageRaises(uploaded_file)
          /\ Strip(EmbeddedText(uploaded_file)) = <<>>

\* A two-page PDF with embedded text on both pages was extracted.
EmbeddedTextReturned ==
    /\ ExtractReturned
    /\ Len(uploaded_file.pages) = 2
    /\ uploaded_file.pages[1].embedded = Returns(Str(T_table))
    /\ uploaded_file.pages[2].embedded = Returns(Str(T_hi))
    /\ pdf_text = Str(Strip(T_table \o T_hi))
    /\ ~OcrInvoked

\* C2: every value extract_text_from_pdf returns is None (the failure) or a
\* non-empty str without leading or trailing whitespace; with the embedded and
\* the OCR text both empty after trimming it is None.
ExtractionResultTrimmedOrNone ==
    ExtractReturned =>
        /\ \/ pdf_text = None
           \/ /\ ~pdf_text.none
              /\ pdf_text.str # <<>>
              /\ ~IsSpace(pdf_text.str[1])
              /\ ~IsSpace(pdf_text.str[Len(pdf_text.str)])
        /\ (/\ fault = NoFault
            /\ Strip(EmbeddedText(uploaded_file)) = <<>>
            /\ Strip(OcrUpTo(uploaded_file, Len(uploaded_file.pages))) = <<>>)
           => pdf_text = None

\* OCR ran on every page of a PDF without embedded text and found nothing.
NothingFoundReturnsNone ==
    /\ ExtractReturned
    /\ fault = NoFault
    /\ CountCalls("image_to_string") = 2
    /\ Strip(text) = <<>>
    /\ text # <<>>
    /\ pdf_text = None

\* C3: when extraction fails neither perform_ats_checks nor
\* get_gemini_response is invoked; scoring and generation happen only after a
\* successful extraction, in the order extraction, scoring, prompt selection,
\* generation.
PipelineHaltsOnExtractionFailure ==
    LET top == SelectSeq(calls, LAMBDA c : c.op \in {"extract_text_from_pdf",
                   "perform_ats_checks", "prompt", "get_gemini_response"})
        order == << "extract_text_from_pdf", "perform_ats_checks", "prompt",
                    "get_gemini_response" >>
    IN  /\ Len(top) <= Len(order)
        /\ \A k \in 1..Len(top) : top[k].op = order[k]
        /\ (Called("perform_ats_checks") \/ Called("prompt")
                \/ Called("get_gemini_response") \/ Called("generate_content"))
           => ExtractReturned /\ Truthy(pdf_text)
        /\ (pc = "done" /\ ExtractReturned /\ ~Truthy(pdf_text))
           => Shown("error", << "No text could be extracted from the resume. ..." >>)

\* A request whose extraction failed has ended without scoring or generation.
RequestEndedAfterFailedExtraction ==
    /\ pc = "done"
    /\ ExtractReturned
    /\ pdf_text = None
    /\ ~Called("perform_ats_checks")
    /\ ~Called("get_gemini_response")

\* C4: when the generation collaborator returns an empty response or raises,
\* the request ends with the failure message and no analysis result displayed
\* or offered for export; a result is displayed and exportable only when the
\* collaborator's response text was non-empty, and the export is that text.
GenerationFailureIsTerminal ==
    (pc = "done" /\ gen.called) =>
        IF gen.raises \/ gen.text = ""
        THEN /\ Shown("error", << "Failed to retrieve AI analysis. Please try again later." >>)
             /\ \A k \in 1..Len(ui) : ui[k].kind \notin {"markdown", "download"}
        ELSE /\ Shown("markdown", << gen.text >>)
             /\ \A k \in 1..Len(ui) : ui[k].kind = "download" => ui[k].text = << gen.text >>
             /\ Shown("download", << gen.text >>)

\* C5: no exception leaves extract_text_from_pdf: a fault raised while parsing
\* (a zero-length stream included), extracting a page's text, rasterizing or
\* running OCR ends in the failure result with the fault's message reported.
NoExceptionEscapesExtraction ==
    /\ pc # "crashed"
    /\ (ExtractReturned /\ fault # NoFault) => pdf_text = None /\ ExtractionErrorShown
    /\ (ExtractReturned /\ ~ParseOk(uploaded_file)) => fault # NoFault
    /\ (ExtractReturned /\ SomePageRaises(uploaded_file) /\ ParseOk(uploaded_file))
       => fault # NoFault

\* The zero-length stream was handed to the extractor, which returned None.
ZeroLengthStreamFails ==
    /\ ExtractReturned
    /\ uploaded_file.size = 0
    /\ pdf_text = None
    /\ Shown("error", << "Error extracting PDF text: ", "Cannot read an empty file" >>)

\* The word w occurs in the text t with its letters lower-cased.
Has(w, t) ==
    \E p \in 0..(Len(t) - Len(w)) : \A q \in 1..Len(w) : LowerChar(t[p + q]) = w[q]

\* The number of whitespace-delimited tokens of t: the positions a token starts at.
TokenCount(t) ==
    Cardinality({i \in 1..Len(t) : ~IsSpace(t[i]) /\ (i = 1 \/ IsSpace(t[i - 1]))})

\* d[i..j] is a whitespace-delimited token of d.
IsToken(d, i, j) ==
    /\ i <= j
    /\ \A k \in i..j : ~IsSpace(d[k])
    /\ i = 1 \/ IsSpace(d[i - 1])
    /\ j = Len(d) \/ IsSpace(d[j + 1])

\* d[i..j], lower-cased, occurs in t, lower-cased.
TokenOccurs(d, i, j, t) ==
    \E p \in 0..(Len(t) - (j - i + 1)) :
        \A q \in 0..(j - i) : LowerChar(t[p + q + 1]) = LowerChar(d[i + q])

\* C6: perform_ats_checks returns four boolean checks and the score 25 times
\* the number of true checks, one of 0, 25, 50, 75, 100; each check has the
\* value of its own predicate, whatever the other checks are.
ScoreIsQuarterOfTrueChecks ==
    pc = "scored" =>
        /\ DOMAIN ats_checks = {CheckNames[k] : k \in 1..Len(CheckNames)}
        /\ Cardinality(DOMAIN ats_checks) = 4
        /\ \A n \in DOMAIN ats_checks : ats_checks[n] \in BOOLEAN
        /\ ats_score = 25 * Cardinality({n \in DOMAIN ats_checks : ats_checks[n]})
        /\ ats_score \in {0, 25, 50, 75, 100}
        /\ ats_checks["No Complex Formatting"]
               = (~Has(W_table, pdf_text.str) /\ ~Has(W_image, pdf_text.str))
        /\ ats_checks["Key Sections"]
               = (/\ Has(W_summary, pdf_text.str)
                  /\ Has(W_experience, pdf_text.str)
                  /\ Has(W_education, pdf_text.str))
        /\ ats_checks["Readable Length"] = (TokenCount(pdf_text.str) < ReadableLimit)

\* A resume of 1000 words with a table and no key section, and a job
\* description none of whose words it holds, scores 0.
AllChecksFalseScoresZero ==
    /\ pc = "scored"
    /\ ats_score = 0
    /\ \A n \in DOMAIN ats_checks : ~ats_checks[n]
    /\ TokenCount(job_description) > 0

\* C7: the Keywords Present check is true exactly when some whitespace-delimited
\* token of the lower-cased job description is a substring of the lower-cased
\* resume text; for an empty or whitespace-only job description it is false.
KeywordsPresentIffSomeTokenOccurs ==
    pc = "scored" =>
        /\ ats_checks["Keywords Present"]
               = (\E i, j \in 1..Len(job_description) :
                      /\ IsToken(job_description, i, j)
                      /\ TokenOccurs(job_description, i, j, pdf_text.str))
        /\ (\A k \in 1..Len(job_description) : IsSpace(job_description[k]))
           => ~ats_checks["Keywords Present"]

\* A job description whose second token, in another case, is part of a word of
\* the resume text, and whose first token is not in it.
SecondTokenMatchesInsideWord ==
    /\ pc = "scored"
    /\ job_description = J_edu
    /\ ~Has(<< "r", "u", "s", "t" >>, pdf_text.str)
    /\ Has(W_education, pdf_text.str)
    /\ ats_checks["Keywords Present"]

\* C8, as the spec states it: an extraction error on one page counts as the
\* empty string for that page, and the other pages' texts are still
\* concatenated and returned (or OCR is tried when they are empty).
PageErrorCountsAsEmptyPage ==
    (/\ ExtractReturned
     /\ ParseOk(uploaded_file)
     /\ SomePageRaises(uploaded_file))
    => IF Strip(EmbeddedText(uploaded_file)) # <<>>
       THEN pdf_text = Str(Strip(EmbeddedText(uploaded_file)))
       ELSE Called("convert_from_bytes")

\* The first page whose embedded-text extraction raises.
FirstRaisingPage(f) ==
    CHOOSE k \in 1..Len(f.pages) :
        /\ f.pages[k].embedded.raises
        /\ \A j \in 1..(k - 1) : ~f.pages[j].embedded.raises

\* C8, amended: a page whose extraction yields no text (None or "") counts as
\* the empty string and does not abort the document: all pages' texts are
\* concatenated in page order and returned trimmed, or OCR is tried when they
\* are empty. An extraction that raises on a page aborts the call: no later
\* page is extracted, OCR is not tried, and the failure result is returned
\* with the fault reported.
PageWithoutTextIsEmptyAndErrorAborts ==
    /\ (/\ ExtractReturned
        /\ ParseOk(uploaded_file)
        /\ NoPageRaises(uploaded_file))
       => /\ CountCalls("extract_text") = Len(uploaded_file.pages)
          /\ IF Strip(EmbeddedText(uploaded_file)) # <<>>
             THEN pdf_text = Str(Strip(EmbeddedText(uploaded_file)))
             ELSE Called("convert_from_bytes")
    /\ (/\ ExtractReturned
        /\ ParseOk(uploaded_file)
        /\ SomePageRaises(uploaded_file))
       => /\ pdf_text = None
          /\ ExtractionErrorShown
          /\ ~OcrInvoked
          /\ \A k \in 1..Len(calls) :
                 calls[k].op = "extract_text"
                     => calls[k].arg <= FirstRaisingPage(uploaded_file)

\* A PDF whose first page has embedded text and whose second page's
\* extraction raises was extracted: the first page's text is lost.
PageErrorAbortedDocument ==
    /\ ExtractReturned
    /\ Len(uploaded_file.pages) = 2
    /\ uploaded_file.pages[1].embedded = Returns(Str(T_hi))
    /\ uploaded_file.pages[2].embedded = Raises
    /\ pdf_text = None

\* C9: when the trimmed embedded text is empty, the OCR fallback rasterizes the
\* complete byte stream of the upload, whatever the PDF parse has consumed of
\* it, and returns the page-ordered, newline-separated, trimmed OCR text
\* whenever that text is not empty.
OcrRasterizesWholeStream ==
    /\ Called("convert_from_bytes")
       => ocr_data = [i \in 1..StreamLen(uploaded_file) |-> i]
    /\ (/\ ExtractReturned
        /\ fault = NoFault
        /\ ParseOk(uploaded_file)
        /\ Strip(EmbeddedText(uploaded_file)) = <<>>
        /\ Strip(OcrUpTo(uploaded_file, Len(uploaded_file.pages))) # <<>>)
       => pdf_text = Str(Strip(OcrUpTo(uploaded_file, Len(uploaded_file.pages))))

====
